---- MODULE Spec2Model ----
(***************************************************************************)
(* Model of the two lifecycle trackers of js/zksync.js/src/wallet.ts:      *)
(* class ETHOperation (an operation sent to the outer chain and picked up  *)
(* by the L2 network as a priority operation) and class Transaction (an    *)
(* operation sent to the L2 network directly).                             *)
(*                                                                         *)
(* Every async method is cut at its `await` points: one action starts the  *)
(* call and runs its synchronous prefix, one action per await resumes it   *)
(* with an outcome of the awaited promise chosen by the environment.       *)
(***************************************************************************)
EXTENDS Integers, Sequences, FiniteSets, TLC

\* ------------------------------------------------------------------ bounds
MaxCalls == 3
MaxLogs == 2

\* --------------------------------------------------------------- universe
EthTrackers == {"eth"}
TxTrackers == {"tx"}
Trackers == EthTrackers \cup TxTrackers
\* frames for the calls in progress on one tracker (a caller that does not
\* await a call before the next has two); Spec uses the first only
Slots == 1..2

EthOps == {"awaitEthereumTxCommit", "awaitReceipt", "awaitVerifyReceipt"}
TxOps == {"awaitReceipt", "awaitVerifyReceipt"}
Ops(t) == IF t \in EthTrackers THEN EthOps ELSE TxOps

\* priorityOpId?: utils.BigNumber -- undefined until a log yields a serialId
NoId == -1
\* the serialId values of events: zero, which as a BigNumber still counts as
\* present at `!this.priorityOpId`, and a non-zero one
SerialIds == {0, 1}

\* one entry of txReceipt.logs as SYNC_MAIN_CONTRACT_INTERFACE.parseLog sees
\* it: not an event of the contract (parseLog gives null), an event without
\* a serialId value, or a priority-queue event carrying serialId
Logs ==
    {[parsed |-> FALSE, serialId |-> NoId], [parsed |-> TRUE, serialId |-> NoId]}
        \cup {[parsed |-> TRUE, serialId |-> n] : n \in SerialIds}

RECURSIVE SeqsUpTo(_, _)
SeqsUpTo(S, n) ==
    IF n = 0 THEN {<<>>}
    ELSE LET shorter == SeqsUpTo(S, n - 1)
         IN  shorter \cup {Append(s, x) : s \in {q \in shorter : Len(q) = n - 1}, x \in S}

LogLists == SeqsUpTo(Logs, MaxLogs)
\* no receipt yet: ethTx.wait() has not resolved
Unmined == <<[parsed |-> FALSE, serialId |-> NoId - 1]>>

\* ------------------------------------------------------- receipts, errors
NoReason == "none"
Reasons == {"insufficient balance", "nonce mismatch"}

Receipt(depth, ok, reason) == [depth |-> depth, ok |-> ok, reason |-> reason]
NoReceipt == Receipt("none", FALSE, NoReason)
\* what ethTx.wait() resolves to (returned by awaitEthereumTxCommit)
InclusionReceipt == Receipt("INCLUSION", TRUE, NoReason)

\* PriorityOperationReceipt {executed, block}: `ok` is receipt.executed
PriorityOpReceipts(depth) == {Receipt(depth, b, NoReason) : b \in BOOLEAN}
\* TransactionReceipt {executed, success, failReason, block}: `ok` is
\* receipt.success, `reason` is receipt.failReason
TransactionReceipts(depth) ==
    {Receipt(depth, TRUE, NoReason)} \cup {Receipt(depth, FALSE, r) : r \in Reasons}

Err(type, message, value) == [type |-> type, message |-> message, value |-> value]
NoError == Err("none", <<>>, NoReceipt)
\* class ZKSyncTxError extends Error { constructor(message, value) }
ZKSyncTxError(message, value) == Err("ZKSyncTxError", message, value)
\* new Error("Failed to parse tx logs")
ParseLogsError == Err("Error", <<"Failed to parse tx logs">>, NoReceipt)
\* rejection of the promise of ethTx.wait()
InclusionFault == Err("InclusionFault", <<"wait rejected">>, NoReceipt)
\* rejection of the promise of notifyPriorityOp / notifyTransaction
ObserverFault == Err("ObserverFault", <<"notify rejected">>, NoReceipt)

\* ------------------------------------------------------- results of calls
NoResult == [kind |-> "none", receipt |-> NoReceipt, err |-> NoError]
Returned(r) == [kind |-> "return", receipt |-> r, err |-> NoError]
\* `return;` in a method declared to return a receipt
ReturnedUndefined == Returned(NoReceipt)
Threw(e) == [kind |-> "throw", receipt |-> NoReceipt, err |-> e]

\* ------------------------------------------------------------ call frames
NoNet == [wait |-> 0, commit |-> 0, verify |-> 0]
IdleFrame ==
    [op |-> "none", pc |-> "idle", startState |-> "none", issued |-> NoNet,
     inclusion |-> "none", commitSeen |-> "none", verifySeen |-> "none",
     failReason |-> NoReason, result |-> NoResult]

Active(f) == f.pc \notin {"idle", "done"}

VARIABLES
    state,          \* tracker.state
    error,          \* tracker.error
    priorityOpId,   \* ETHOperation.priorityOpId
    chainLogs,      \* the logs of the inclusion receipt of ethTx
    calls,          \* the await calls in progress on each tracker
    net,            \* history: number of ethTx.wait / notify* calls issued
    lastDisp,       \* history: last observer disposition the tracker got
    trace,          \* history: the successive values of tracker.state
    obtained,       \* history: receipt that came with each transition
    polledIds,      \* history: identifiers passed to notifyPriorityOp
    prev,           \* history: the previous completed call
    alone,          \* history: each tracker as it is when awaited alone
    ncalls          \* number of calls started on all trackers

vars ==
    <<state, error, priorityOpId, chainLogs, calls, net, lastDisp, trace,
      obtained, polledIds, prev, alone, ncalls>>


\* ------------------------------------------------- code fragments (guards)
\* ETHOperation.throwErrorIfFailedState: if (this.state == "Failed") throw
EthThrowErrorIfFailedState(s) == s = "Failed"
\* Transaction.throwErrorIfFailedState
TxThrowErrorIfFailedState(s) == s = "Failed"
\* ETHOperation.awaitReceipt, first statement: this.throwErrorIfFailedState();
EthAwaitReceiptThrowsAtEntry(s) == EthThrowErrorIfFailedState(s)
\* (variant: the first statement of Transaction.awaitReceipt left out)
TxAwaitReceiptThrowsAtEntry_Omitted(s) == FALSE
\* Transaction.awaitReceipt, first statement: this.throwErrorIfFailedState();
TxAwaitReceiptThrowsAtEntry(s) == TxThrowErrorIfFailedState(s)
\* (variant: a Failed tracker waits for inclusion again)
EthInclusionSkipped_NotInFailed(s) == s \notin {"Sent", "Failed"}
\* awaitEthereumTxCommit: if (this.state != "Sent") return;
EthInclusionSkipped(s) == s # "Sent"
\* (variant: the guard also lets a Verified tracker poll at COMMIT depth)
EthCommitSkipped_AlsoVerified(s) == s \notin {"Mined", "Verified"}
\* ETHOperation.awaitReceipt: if (this.state != "Mined") return;
EthCommitSkipped(s) == s # "Mined"
\* ETHOperation.awaitVerifyReceipt: if (this.state != "Committed") return;
EthVerifySkipped(s) == s # "Committed"
\* (variant: the guard left out)
TxCommitSkipped_Never(s) == FALSE
\* Transaction.awaitReceipt: if (this.state !== "Sent") return;
TxCommitSkipped(s) == s # "Sent"
\* (variant: receipt.executed not looked at)
PriorityOpRejected_Never(receipt) == FALSE
\* ETHOperation.awaitReceipt: if (!receipt.executed)
PriorityOpRejected(receipt) == ~receipt.ok
\* (variant: receipt.success not looked at)
TransactionRejected_Never(receipt) == FALSE
\* Transaction.awaitReceipt: if (!receipt.success)
TransactionRejected(receipt) == ~receipt.ok
\* (variant: the check left out)
IdMissing_Never(id) == FALSE
\* (variant: the identifier tested as a number, so that 0 counts as missing)
IdMissing_Zero(id) == id = NoId \/ id = 0
\* if (!this.priorityOpId): a BigNumber object is truthy, zero included
IdMissing(id) == id = NoId

\* (variant: the error is not stored)
EthSetErrorState_NoError(e) == [state |-> "Failed", error |-> NoError]
\* ETHOperation.setErrorState(error): this.state = "Failed"; this.error = error;
EthSetErrorState(e) == [state |-> "Failed", error |-> e]
\* Transaction.setErrorState(error)
TxSetErrorState(e) == [state |-> "Failed", error |-> e]

\* (variant: the loop stops at the first log that carries a serialId)
ScanLogs_FirstWins(logs, id) ==
    LET M == {k \in DOMAIN logs : logs[k].parsed /\ logs[k].serialId # NoId}
    IN  IF M = {} THEN id
        ELSE logs[CHOOSE k \in M : \A j \in M : k <= j].serialId
\* for (const log of txReceipt.logs) { ... this.priorityOpId = serialId }
RECURSIVE ScanLogs(_, _)
ScanLogs(logs, id) ==
    IF logs = <<>> THEN id
    ELSE ScanLogs(Tail(logs),
                  IF Head(logs).parsed /\ Head(logs).serialId # NoId
                  THEN Head(logs).serialId ELSE id)

\* new ZKSyncTxError("Priority operation failed", receipt)
PriorityOpError(receipt) == ZKSyncTxError(<<"Priority operation failed">>, receipt)
\* (variant: the message leaves receipt.failReason out)
TransactionError_NoReason(receipt) ==
    ZKSyncTxError(<<"zkSync transaction failed">>, receipt)
\* new ZKSyncTxError(`zkSync transaction failed: ${receipt.failReason}`, receipt)
TransactionError(receipt) ==
    ZKSyncTxError(<<"zkSync transaction failed: ", receipt.reason>>, receipt)

\* The fields of one tracker and the position of its call, as a value.
InitialLocal ==
    [state |-> "Sent", error |-> NoError, id |-> NoId, op |-> "none", pc |-> "idle"]

\* ----------------------------------------------------------------- Init
\* constructor: this.state = "Sent"; error and priorityOpId are undefined
Init ==
    /\ state = [t \in Trackers |-> "Sent"]
    /\ error = [t \in Trackers |-> NoError]
    /\ priorityOpId = [t \in Trackers |-> NoId]
    /\ chainLogs = [t \in Trackers |-> Unmined]
    /\ calls = [t \in Trackers |-> [i \in Slots |-> IdleFrame]]
    /\ net = [t \in Trackers |-> NoNet]
    /\ lastDisp = [t \in Trackers |-> "none"]
    /\ trace = [t \in Trackers |-> <<"Sent">>]
    /\ obtained = [t \in Trackers |-> [commit |-> NoReceipt, verify |-> NoReceipt]]
    /\ polledIds = [t \in Trackers |-> {}]
    /\ prev = [t \in Trackers |-> IdleFrame]
    /\ alone = [t \in Trackers |-> InitialLocal]
    /\ ncalls = 0

\* ---------------------------------------------------------- bookkeeping
SetCall(t, i, f) == calls' = [calls EXCEPT ![t][i] = f]
Finish(f, res) == [f EXCEPT !.pc = "done", !.result = res]
At(f, pc) == [f EXCEPT !.pc = pc]
Issue(f, what) ==
    [f EXCEPT !.issued = [@ EXCEPT ![what] = @ + 1]]
CountNet(t, what) == net' = [net EXCEPT ![t] = [@ EXCEPT ![what] = @ + 1]]
\* (variant: the state kept in one field shared by all trackers)
SetState_Shared(t, s) ==
    /\ state' = [u \in Trackers |-> s]
    /\ trace' = [trace EXCEPT ![t] = IF s = state[t] THEN @ ELSE Append(@, s)]
\* this.state = s
SetState(t, s) ==
    /\ state' = [state EXCEPT ![t] = s]
    /\ trace' = [trace EXCEPT ![t] = IF s = state[t] THEN @ ELSE Append(@, s)]
Disp(r) == IF r.ok THEN "ok" ELSE "fail"
Event(ev, op, receipt) == [ev |-> ev, op |-> op, receipt |-> receipt]

\* --------------------------------------------- one tracker awaited alone
\* where a call that got through awaitReceipt goes on
AfterReceipt(L) == IF L.op = "awaitReceipt" THEN "done" ELSE "afterReceipt"

\* one step of an ETHOperation whose receipt has the given logs
EthLocalStep(logs, L, e) ==
    CASE e.ev = "call" ->
            LET M == [L EXCEPT !.op = e.op]
            IN  IF e.op # "awaitEthereumTxCommit" /\ EthAwaitReceiptThrowsAtEntry(L.state)
                THEN [M EXCEPT !.pc = "done"]
                ELSE IF EthInclusionSkipped(L.state)
                THEN [M EXCEPT !.pc = IF e.op = "awaitEthereumTxCommit"
                                      THEN "done" ELSE "afterInclusion"]
                ELSE [M EXCEPT !.pc = "wait"]
      [] e.ev = "waitResolved" ->
            LET id == ScanLogs(logs, L.id)
            IN  IF IdMissing(id)
                THEN [L EXCEPT !.id = id, !.pc = "done"]
                ELSE [L EXCEPT !.id = id, !.state = "Mined",
                               !.pc = IF L.op = "awaitEthereumTxCommit"
                                      THEN "done" ELSE "afterInclusion"]
      [] e.ev = "resume" /\ L.pc = "afterInclusion" ->
            IF EthCommitSkipped(L.state)
            THEN [L EXCEPT !.pc = AfterReceipt(L)]
            ELSE [L EXCEPT !.pc = "commitPoll"]
      [] e.ev = "resume" /\ L.pc # "afterInclusion" ->
            IF EthVerifySkipped(L.state)
            THEN [L EXCEPT !.pc = "done"]
            ELSE [L EXCEPT !.pc = "verifyPoll"]
      [] e.ev = "notifyResolved" /\ L.pc = "commitPoll" ->
            IF PriorityOpRejected(e.receipt)
            THEN LET f == EthSetErrorState(PriorityOpError(e.receipt))
                 IN  [L EXCEPT !.state = f.state, !.error = f.error, !.pc = "done"]
            ELSE [L EXCEPT !.state = "Committed", !.pc = AfterReceipt(L)]
      [] e.ev = "notifyResolved" /\ L.pc # "commitPoll" ->
            [L EXCEPT !.state = "Verified", !.pc = "done"]
      [] OTHER -> [L EXCEPT !.pc = "done"]

\* one step of a Transaction
TxLocalStep(L, e) ==
    CASE e.ev = "call" ->
            LET M == [L EXCEPT !.op = e.op]
            IN  IF TxAwaitReceiptThrowsAtEntry(L.state)
                THEN [M EXCEPT !.pc = "done"]
                ELSE IF TxCommitSkipped(L.state)
                THEN [M EXCEPT !.pc = AfterReceipt(M)]
                ELSE [M EXCEPT !.pc = "commitPoll"]
      [] e.ev = "resume" -> [L EXCEPT !.pc = "verifyPoll"]
      [] e.ev = "notifyResolved" /\ L.pc = "commitPoll" ->
            IF TransactionRejected(e.receipt)
            THEN LET f == TxSetErrorState(TransactionError(e.receipt))
                 IN  [L EXCEPT !.state = f.state, !.error = f.error, !.pc = "done"]
            ELSE [L EXCEPT !.state = "Committed", !.pc = AfterReceipt(L)]
      [] e.ev = "notifyResolved" /\ L.pc # "commitPoll" ->
            [L EXCEPT !.state = "Verified", !.pc = "done"]
      [] OTHER -> [L EXCEPT !.pc = "done"]

\* the tracker awaited alone takes the step e
Log(t, e) ==
    alone' = [alone EXCEPT ![t] = IF t \in EthTrackers
                                  THEN EthLocalStep(chainLogs'[t], @, e)
                                  ELSE TxLocalStep(@, e)]

NewFrame(t, op) == [IdleFrame EXCEPT !.op = op, !.startState = state[t]]
BeginCall(t, i) ==
    /\ ~Active(calls[t][i])
    /\ ncalls < MaxCalls
    /\ ncalls' = ncalls + 1
    /\ prev' = [prev EXCEPT ![t] = calls[t][i]]


\* ======================================================== ETHOperation
\* The caller invokes awaitEthereumTxCommit / awaitReceipt /
\* awaitVerifyReceipt; the body runs up to its first await.
ETHOperation_call(t, i, op) ==
    /\ t \in EthTrackers /\ op \in EthOps
    /\ BeginCall(t, i)
    /\ LET f == NewFrame(t, op)
       IN  IF op # "awaitEthereumTxCommit" /\ EthAwaitReceiptThrowsAtEntry(state[t])
           THEN \* awaitReceipt: this.throwErrorIfFailedState()
                /\ SetCall(t, i, Finish(f, Threw(error[t])))
                /\ UNCHANGED net
           ELSE IF EthInclusionSkipped(state[t])
           THEN \* awaitEthereumTxCommit returns at once
                /\ SetCall(t, i, IF op = "awaitEthereumTxCommit"
                                 THEN Finish(f, ReturnedUndefined)
                                 ELSE At(f, "afterInclusion"))
                /\ UNCHANGED net
           ELSE \* await this.ethTx.wait()
                /\ SetCall(t, i, At(Issue(f, "wait"), "wait"))
                /\ CountNet(t, "wait")
    /\ UNCHANGED <<state, error, priorityOpId, chainLogs, lastDisp, trace,
                   obtained, polledIds>>
    /\ Log(t, Event("call", op, NoReceipt))

\* awaitEthereumTxCommit after ethTx.wait() resolved: scan the logs
ETHOperation_waitResolved(t, i) ==
    /\ t \in EthTrackers
    /\ calls[t][i].pc = "wait"
    /\ \E logs \in LogLists :
        \* the receipt of one Ethereum transaction is the same at every wait()
        /\ chainLogs[t] # Unmined => logs = chainLogs[t]
        /\ chainLogs' = [chainLogs EXCEPT ![t] = logs]
        /\ LET f == [calls[t][i] EXCEPT !.inclusion = "resolved"]
               id == ScanLogs(logs, priorityOpId[t])
           IN  /\ priorityOpId' = [priorityOpId EXCEPT ![t] = id]
               /\ IF IdMissing(id)
                  THEN \* throw new Error("Failed to parse tx logs")
                       /\ SetCall(t, i, Finish(f, Threw(ParseLogsError)))
                       /\ UNCHANGED <<state, trace>>
                  ELSE /\ SetState(t, "Mined")
                       /\ SetCall(t, i, IF f.op = "awaitEthereumTxCommit"
                                        THEN Finish(f, Returned(InclusionReceipt))
                                        ELSE At(f, "afterInclusion"))
    /\ UNCHANGED <<error, net, lastDisp, obtained, polledIds, prev, ncalls>>
    /\ Log(t, Event("waitResolved", "none", InclusionReceipt))

\* ethTx.wait() rejected: the rejection leaves every async caller
ETHOperation_waitRejected(t, i) ==
    /\ t \in EthTrackers
    /\ calls[t][i].pc = "wait"
    /\ SetCall(t, i, Finish([calls[t][i] EXCEPT !.inclusion = "rejected"],
                            Threw(InclusionFault)))
    /\ UNCHANGED <<state, error, priorityOpId, chainLogs, net, lastDisp, trace,
                   obtained, polledIds, prev, ncalls>>
    /\ Log(t, Event("waitRejected", "none", NoReceipt))

\* awaitReceipt resumes after `await this.awaitEthereumTxCommit()`
ETHOperation_awaitReceipt_resume(t, i) ==
    /\ t \in EthTrackers
    /\ calls[t][i].pc = "afterInclusion"
    /\ LET f == calls[t][i]
       IN  IF EthCommitSkipped(state[t])
           THEN \* return;
                /\ SetCall(t, i, IF f.op = "awaitReceipt"
                                 THEN Finish(f, ReturnedUndefined)
                                 ELSE At(f, "afterReceipt"))
                /\ UNCHANGED <<net, polledIds>>
           ELSE \* await notifyPriorityOp(this.priorityOpId.toNumber(), "COMMIT")
                /\ SetCall(t, i, At(Issue(f, "commit"), "commitPoll"))
                /\ CountNet(t, "commit")
                /\ polledIds' = [polledIds EXCEPT
                                   ![t] = @ \cup {<<"COMMIT", priorityOpId[t]>>}]
    /\ UNCHANGED <<state, error, priorityOpId, chainLogs, lastDisp, trace,
                   obtained, prev, ncalls>>
    /\ Log(t, Event("resume", "none", NoReceipt))

\* notifyPriorityOp(.., "COMMIT") resolved with a receipt
ETHOperation_commitResolved(t, i, receipt) ==
    /\ t \in EthTrackers
    /\ receipt \in PriorityOpReceipts("COMMIT")
    /\ calls[t][i].pc = "commitPoll"
    /\ lastDisp' = [lastDisp EXCEPT ![t] = Disp(receipt)]
    /\ LET f == [calls[t][i] EXCEPT !.commitSeen = Disp(receipt)]
           \* if (!receipt.executed) this.setErrorState(new ZKSyncTxError(..))
           e == IF PriorityOpRejected(receipt)
                THEN EthSetErrorState(PriorityOpError(receipt))
                ELSE [state |-> state[t], error |-> error[t]]
       IN  /\ error' = [error EXCEPT ![t] = e.error]
           /\ IF PriorityOpRejected(receipt) /\ EthThrowErrorIfFailedState(e.state)
              THEN \* this.throwErrorIfFailedState()
                   /\ SetState(t, e.state)
                   /\ SetCall(t, i, Finish(f, Threw(e.error)))
                   /\ UNCHANGED obtained
              ELSE \* this.state = "Committed"; return receipt;
                   /\ SetState(t, "Committed")
                   /\ obtained' = [obtained EXCEPT
                                     ![t].commit = IF state[t] = "Committed"
                                                   THEN @ ELSE receipt]
                   /\ SetCall(t, i, IF f.op = "awaitReceipt"
                                    THEN Finish(f, Returned(receipt))
                                    ELSE At(f, "afterReceipt"))
    /\ UNCHANGED <<priorityOpId, chainLogs, net, polledIds, prev, ncalls>>
    /\ Log(t, Event("notifyResolved", "none", receipt))

\* awaitVerifyReceipt resumes after `await this.awaitReceipt()`
ETHOperation_awaitVerifyReceipt_resume(t, i) ==
    /\ t \in EthTrackers
    /\ calls[t][i].pc = "afterReceipt"
    /\ LET f == calls[t][i]
       IN  IF EthVerifySkipped(state[t])
           THEN \* return;
                /\ SetCall(t, i, Finish(f, ReturnedUndefined))
                /\ UNCHANGED <<net, polledIds>>
           ELSE \* await notifyPriorityOp(this.priorityOpId.toNumber(), "VERIFY")
                /\ SetCall(t, i, At(Issue(f, "verify"), "verifyPoll"))
                /\ CountNet(t, "verify")
                /\ polledIds' = [polledIds EXCEPT
                                   ![t] = @ \cup {<<"VERIFY", priorityOpId[t]>>}]
    /\ UNCHANGED <<state, error, priorityOpId, chainLogs, lastDisp, trace,
                   obtained, prev, ncalls>>
    /\ Log(t, Event("resume", "none", NoReceipt))

\* notifyPriorityOp(.., "VERIFY") resolved with a receipt
ETHOperation_verifyResolved(t, i, receipt) ==
    /\ t \in EthTrackers
    /\ receipt \in PriorityOpReceipts("VERIFY")
    /\ calls[t][i].pc = "verifyPoll"
    /\ lastDisp' = [lastDisp EXCEPT ![t] = Disp(receipt)]
    /\ SetState(t, "Verified")
    /\ obtained' = [obtained EXCEPT
                      ![t].verify = IF state[t] = "Verified" THEN @ ELSE receipt]
    /\ SetCall(t, i, Finish([calls[t][i] EXCEPT !.verifySeen = Disp(receipt)],
                            Returned(receipt)))
    /\ UNCHANGED <<error, priorityOpId, chainLogs, net, polledIds, prev, ncalls>>
    /\ Log(t, Event("notifyResolved", "none", receipt))

\* notifyPriorityOp rejected (transport error): the rejection propagates
ETHOperation_notifyRejected(t, i) ==
    /\ t \in EthTrackers
    /\ calls[t][i].pc \in {"commitPoll", "verifyPoll"}
    /\ SetCall(t, i, Finish(IF calls[t][i].pc = "commitPoll"
                            THEN [calls[t][i] EXCEPT !.commitSeen = "rejected"]
                            ELSE [calls[t][i] EXCEPT !.verifySeen = "rejected"],
                            Threw(ObserverFault)))
    /\ UNCHANGED <<state, error, priorityOpId, chainLogs, net, lastDisp, trace,
                   obtained, polledIds, prev, ncalls>>
    /\ Log(t, Event("notifyRejected", "none", NoReceipt))


\* ========================================================= Transaction
\* The caller invokes awaitReceipt / awaitVerifyReceipt; the body runs up
\* to its first await.
Transaction_call(t, i, op) ==
    /\ t \in TxTrackers /\ op \in TxOps
    /\ BeginCall(t, i)
    /\ LET f == NewFrame(t, op)
       IN  IF TxAwaitReceiptThrowsAtEntry(state[t])
           THEN \* this.throwErrorIfFailedState()
                /\ SetCall(t, i, Finish(f, Threw(error[t])))
                /\ UNCHANGED net
           ELSE IF TxCommitSkipped(state[t])
           THEN \* return;
                /\ SetCall(t, i, IF op = "awaitReceipt"
                                 THEN Finish(f, ReturnedUndefined)
                                 ELSE At(f, "afterReceipt"))
                /\ UNCHANGED net
           ELSE \* await notifyTransaction(this.txHash, "COMMIT")
                /\ SetCall(t, i, At(Issue(f, "commit"), "commitPoll"))
                /\ CountNet(t, "commit")
    /\ UNCHANGED <<state, error, priorityOpId, chainLogs, lastDisp, trace,
                   obtained, polledIds>>
    /\ Log(t, Event("call", op, NoReceipt))

\* notifyTransaction(.., "COMMIT") resolved with a receipt
Transaction_commitResolved(t, i, receipt) ==
    /\ t \in TxTrackers
    /\ receipt \in TransactionReceipts("COMMIT")
    /\ calls[t][i].pc = "commitPoll"
    /\ lastDisp' = [lastDisp EXCEPT ![t] = Disp(receipt)]
    /\ LET f == [calls[t][i] EXCEPT !.commitSeen = Disp(receipt),
                                    !.failReason = receipt.reason]
           \* if (!receipt.success) this.setErrorState(new ZKSyncTxError(..))
           e == IF TransactionRejected(receipt)
                THEN TxSetErrorState(TransactionError(receipt))
                ELSE [state |-> state[t], error |-> error[t]]
       IN  /\ error' = [error EXCEPT ![t] = e.error]
           /\ IF TransactionRejected(receipt) /\ TxThrowErrorIfFailedState(e.state)
              THEN \* this.throwErrorIfFailedState()
                   /\ SetState(t, e.state)
                   /\ SetCall(t, i, Finish(f, Threw(e.error)))
                   /\ UNCHANGED obtained
              ELSE \* this.state = "Committed"; return receipt;
                   /\ SetState(t, "Committed")
                   /\ obtained' = [obtained EXCEPT
                                     ![t].commit = IF state[t] = "Committed"
                                                   THEN @ ELSE receipt]
                   /\ SetCall(t, i, IF f.op = "awaitReceipt"
                                    THEN Finish(f, Returned(receipt))
                                    ELSE At(f, "afterReceipt"))
    /\ UNCHANGED <<priorityOpId, chainLogs, net, polledIds, prev, ncalls>>
    /\ Log(t, Event("notifyResolved", "none", receipt))

\* awaitVerifyReceipt resumes after `await this.awaitReceipt()` and polls
\* at VERIFY depth whatever the state is
Transaction_awaitVerifyReceipt_resume(t, i) ==
    /\ t \in TxTrackers
    /\ calls[t][i].pc = "afterReceipt"
    /\ SetCall(t, i, At(Issue(calls[t][i], "verify"), "verifyPoll"))
    /\ CountNet(t, "verify")
    /\ UNCHANGED <<state, error, priorityOpId, chainLogs, lastDisp, trace,
                   obtained, polledIds, prev, ncalls>>
    /\ Log(t, Event("resume", "none", NoReceipt))

\* notifyTransaction(.., "VERIFY") resolved with a receipt
Transaction_verifyResolved(t, i, receipt) ==
    /\ t \in TxTrackers
    /\ receipt \in TransactionReceipts("VERIFY")
    /\ calls[t][i].pc = "verifyPoll"
    /\ lastDisp' = [lastDisp EXCEPT ![t] = Disp(receipt)]
    /\ SetState(t, "Verified")
    /\ obtained' = [obtained EXCEPT
                      ![t].verify = IF state[t] = "Verified" THEN @ ELSE receipt]
    /\ SetCall(t, i, Finish([calls[t][i] EXCEPT !.verifySeen = Disp(receipt)],
                            Returned(receipt)))
    /\ UNCHANGED <<error, priorityOpId, chainLogs, net, polledIds, prev, ncalls>>
    /\ Log(t, Event("notifyResolved", "none", receipt))

\* notifyTransaction rejected (transport error): the rejection propagates
Transaction_notifyRejected(t, i) ==
    /\ t \in TxTrackers
    /\ calls[t][i].pc \in {"commitPoll", "verifyPoll"}
    /\ SetCall(t, i, Finish(IF calls[t][i].pc = "commitPoll"
                            THEN [calls[t][i] EXCEPT !.commitSeen = "rejected"]
                            ELSE [calls[t][i] EXCEPT !.verifySeen = "rejected"],
                            Threw(ObserverFault)))
    /\ UNCHANGED <<state, error, priorityOpId, chainLogs, net, lastDisp, trace,
                   obtained, polledIds, prev, ncalls>>
    /\ Log(t, Event("notifyRejected", "none", NoReceipt))

\* ======================================================== specifications
\* No call of the tracker is in progress (spec section 5: one caller drives
\* a tracker and awaits each call before the next).
Quiet(t) == \A j \in Slots : ~Active(calls[t][j])

Resume(t, i) ==
    \/ ETHOperation_waitResolved(t, i)
    \/ ETHOperation_waitRejected(t, i)
    \/ ETHOperation_awaitReceipt_resume(t, i)
    \/ \E r \in PriorityOpReceipts("COMMIT") : ETHOperation_commitResolved(t, i, r)
    \/ ETHOperation_awaitVerifyReceipt_resume(t, i)
    \/ \E r \in PriorityOpReceipts("VERIFY") : ETHOperation_verifyResolved(t, i, r)
    \/ ETHOperation_notifyRejected(t, i)
    \/ \E r \in TransactionReceipts("COMMIT") : Transaction_commitResolved(t, i, r)
    \/ Transaction_awaitVerifyReceipt_resume(t, i)
    \/ \E r \in TransactionReceipts("VERIFY") : Transaction_verifyResolved(t, i, r)
    \/ Transaction_notifyRejected(t, i)

\* calls on one tracker follow one another; the trackers interleave freely
Next ==
    \E t \in Trackers :
        \/ \E op \in EthOps : Quiet(t) /\ ETHOperation_call(t, 1, op)
        \/ \E op \in TxOps : Quiet(t) /\ Transaction_call(t, 1, op)
        \/ Resume(t, 1)

Spec == Init /\ [][Next]_vars


\* ================================================================ claims
\* The claims below are stated for the caller of spec section 5: the calls
\* on one tracker do not overlap, so the call in progress or last completed
\* on tracker t is calls[t][1] and the one before it is prev[t].
Call(t) == calls[t][1]
AwaitOps == {"awaitReceipt", "awaitVerifyReceipt"}
NoObserverCalls(f) == f.issued.commit = 0 /\ f.issued.verify = 0

\* Sent < Mined < Committed < Verified, Failed absorbing
Rank(s) ==
    CASE s = "Sent" -> 0
      [] s = "Mined" -> 1
      [] s = "Committed" -> 2
      [] s = "Verified" -> 3
      [] s = "Failed" -> 4

\* C1: in every step of either tracker the state does not move backward in
\* Sent < Mined < Committed < Verified, and a Failed tracker stays Failed.
C1_StateMonotone ==
    [][\A t \in Trackers :
          /\ state[t] = "Failed" => state'[t] = "Failed"
          /\ state'[t] # "Failed" => Rank(state'[t]) >= Rank(state[t])]_vars

\* an ETHOperation went through every state and was awaited again once
\* Verified, and a Transaction failed
C1_Witness ==
    /\ \E t \in EthTrackers :
          /\ trace[t] = <<"Sent", "Mined", "Committed", "Verified">>
          /\ Call(t).pc = "done" /\ Call(t).startState = "Verified"
    /\ \E t \in TxTrackers : trace[t] = <<"Sent", "Failed">>

\* C2: a Failed tracker has its error set, and an awaitReceipt or
\* awaitVerifyReceipt call started on a Failed tracker ends at once by
\* throwing the stored error, having issued no ethTx.wait and no notify call.
C2_FailedSticky ==
    \A t \in Trackers :
        /\ state[t] = "Failed" => error[t] # NoError
        /\ (Call(t).op \in AwaitOps /\ Call(t).startState = "Failed") =>
              /\ Call(t).pc = "done"
              /\ Call(t).result = Threw(error[t])
              /\ Call(t).issued = NoNet
              /\ state[t] = "Failed"

\* an awaitVerifyReceipt call made on a failed Transaction is over, and an
\* ETHOperation has failed
C2_Witness ==
    /\ \E t \in TxTrackers :
          /\ Call(t).op = "awaitVerifyReceipt" /\ Call(t).startState = "Failed"
          /\ Call(t).pc = "done"
    /\ \E t \in EthTrackers : state[t] = "Failed"

\* C3: an ETHOperation.awaitVerifyReceipt call started in the initial state
\* reaches Verified only through Mined and then Committed; when its COMMIT
\* disposition has executed = false the tracker is Failed, the call is over
\* and it has issued no VERIFY-depth notifyPriorityOp.
C3_VerifySequencing ==
    \A t \in EthTrackers :
        (Call(t).op = "awaitVerifyReceipt" /\ Call(t).startState = "Sent") =>
            /\ state[t] = "Verified" =>
                  trace[t] = <<"Sent", "Mined", "Committed", "Verified">>
            /\ Call(t).issued.verify > 0 =>
                  /\ Call(t).commitSeen = "ok"
                  /\ SubSeq(trace[t], 1, 3) = <<"Sent", "Mined", "Committed">>
            /\ Call(t).commitSeen = "fail" =>
                  /\ state[t] = "Failed"
                  /\ Call(t).pc = "done"
                  /\ Call(t).issued.verify = 0

\* one awaitVerifyReceipt call took the ETHOperation from Sent to Verified
C3_Witness ==
    \E t \in EthTrackers :
        /\ Call(t).op = "awaitVerifyReceipt" /\ Call(t).startState = "Sent"
        /\ Call(t).pc = "done" /\ state[t] = "Verified"
        /\ Call(t).issued = [wait |-> 1, commit |-> 1, verify |-> 1]

\* no log of the inclusion receipt parses to an event with a serialId
NoSerialIdIn(logs) ==
    \A k \in DOMAIN logs : ~(logs[k].parsed /\ logs[k].serialId # NoId)

\* C4: when the inclusion receipt arrived and none of its logs carries a
\* serialId, the ETHOperation is Failed with the log-parse error stored.
C4_NoLogFails ==
    \A t \in EthTrackers :
        (Call(t).inclusion = "resolved" /\ NoSerialIdIn(chainLogs[t])) =>
            /\ state[t] = "Failed"
            /\ error[t] # NoError
            /\ "Mined" \notin {trace[t][k] : k \in DOMAIN trace[t]}

\* C5: an awaitVerifyReceipt call started on a Verified tracker issues no
\* ethTx.wait and no notifyPriorityOp / notifyTransaction.
C5_ReawaitVerifiedSilent ==
    \A t \in Trackers :
        (Call(t).op = "awaitVerifyReceipt" /\ Call(t).startState = "Verified") =>
            Call(t).issued = NoNet

\* C6: the error field is set exactly when the state is Failed.
C6_ErrorIffFailed ==
    \A t \in Trackers : (error[t] # NoError) <=> (state[t] = "Failed")

\* both trackers have failed
C6_Witness ==
    \A t \in Trackers : state[t] = "Failed" /\ Call(t).result.kind = "throw"

\* C7: when the VERIFY-depth disposition of an ETHOperation reports failure
\* the state is Failed, not Verified.
C7_VerifyFailureFails ==
    \A t \in EthTrackers :
        Call(t).verifySeen = "fail" => state[t] = "Failed"

\* C8: a tracker is Committed or Verified, or an await call has returned an
\* observer receipt, only when the last disposition it received was a success.
C8_NoSuccessAfterFailure ==
    \A t \in Trackers :
        (\/ state[t] \in {"Committed", "Verified"}
         \/ /\ Call(t).pc = "done" /\ Call(t).op \in AwaitOps
            /\ Call(t).result.kind = "return"
            /\ Call(t).result.receipt # NoReceipt)
        => lastDisp[t] = "ok"

\* C9: of two awaitReceipt calls in a row on a tracker already Committed or
\* Verified, neither issues an observer call and both return equal results.
C9_AwaitReceiptTwice ==
    \A t \in Trackers :
        (/\ Call(t).op = "awaitReceipt"
         /\ Call(t).startState \in {"Committed", "Verified"}
         /\ prev[t].op = "awaitReceipt"
         /\ prev[t].startState \in {"Committed", "Verified"}) =>
            /\ NoObserverCalls(prev[t]) /\ NoObserverCalls(Call(t))
            /\ prev[t].result.kind = "return"
            /\ Call(t).pc = "done" => Call(t).result = prev[t].result

\* the second of two such awaitReceipt calls has returned
C9_Witness ==
    \E t \in Trackers :
        /\ Call(t).op = "awaitReceipt" /\ Call(t).pc = "done"
        /\ Call(t).startState \in {"Committed", "Verified"}
        /\ prev[t].op = "awaitReceipt" /\ prev[t].pc = "done"
        /\ prev[t].startState \in {"Committed", "Verified"}

\* C10: an awaitReceipt call made once the tracker is Committed returns the
\* receipt that came with the transition to Committed, and an
\* awaitVerifyReceipt call made once it is Verified returns the receipt that
\* came with the transition to Verified.
C10_ReawaitReturnsObtained ==
    \A t \in Trackers :
        Call(t).pc = "done" =>
            /\ (Call(t).op = "awaitReceipt" /\ Call(t).startState = "Committed")
                  => Call(t).result = Returned(obtained[t].commit)
            /\ (Call(t).op = "awaitVerifyReceipt" /\ Call(t).startState = "Verified")
                  => Call(t).result = Returned(obtained[t].verify)


\* the text r occurs in the message
Contains(message, r) == \E k \in DOMAIN message : message[k] = r

\* C11: when the COMMIT-depth receipt of a Transaction call has success =
\* false and failReason r, the tracker is Failed, the stored error's message
\* contains r, the call has issued one COMMIT-depth notifyTransaction and
\* nothing else and has thrown the stored error; an awaitVerifyReceipt call
\* made next throws the same error and issues nothing.
C11_RejectionCarriesReason ==
    \A t \in TxTrackers :
        /\ Call(t).commitSeen = "fail" =>
              /\ state[t] = "Failed"
              /\ Call(t).failReason \in Reasons
              /\ Contains(error[t].message, Call(t).failReason)
              /\ error[t].value = Receipt("COMMIT", FALSE, Call(t).failReason)
              /\ Call(t).issued = [wait |-> 0, commit |-> 1, verify |-> 0]
              /\ Call(t).pc = "done" /\ Call(t).result = Threw(error[t])
        /\ (prev[t].commitSeen = "fail" /\ Call(t).op = "awaitVerifyReceipt") =>
              /\ state[t] = "Failed"
              /\ Contains(error[t].message, prev[t].failReason)
              /\ Call(t).pc = "done" /\ Call(t).result = prev[t].result
              /\ Call(t).issued = NoNet

\* awaitVerifyReceipt was called on a Transaction that an earlier call saw
\* rejected for "insufficient balance"
C11_Witness ==
    \E t \in TxTrackers :
        /\ prev[t].commitSeen = "fail"
        /\ prev[t].failReason = "insufficient balance"
        /\ Call(t).op = "awaitVerifyReceipt" /\ Call(t).pc = "done"

\* a COMMIT-depth observer call of the tracker has returned success
CommitSucceeded(t) ==
    obtained[t].commit.depth = "COMMIT" /\ obtained[t].commit.ok

\* C12: a step that issues a VERIFY-depth observer call is taken only after a
\* COMMIT-depth call of the same tracker returned success, and a step of an
\* ETHOperation that issues a COMMIT-depth call is taken only in state Mined
\* with the identifier set.
C12_PollOrdering ==
    [][\A t \in Trackers :
          /\ net'[t].verify > net[t].verify => CommitSucceeded(t)
          /\ (t \in EthTrackers /\ net'[t].commit > net[t].commit) =>
                state[t] = "Mined" /\ priorityOpId[t] # NoId]_vars

\* both trackers have issued a VERIFY-depth call
C12_Witness ==
    \A t \in Trackers : net[t].verify > 0 /\ net[t].commit > 0


\* C14: when notifyTransaction rejects while a Transaction polls at VERIFY
\* depth, the tracker is Failed with that error stored.
C14_VerifyFaultFails ==
    \A t \in TxTrackers :
        Call(t).verifySeen = "rejected" =>
            state[t] = "Failed" /\ error[t] = ObserverFault

\* C15: when ethTx.wait() rejects, the call throws that rejection, the
\* ETHOperation is Failed with it stored, and the next await call throws the
\* same failure without waiting for inclusion again.
C15_InclusionFaultFails ==
    \A t \in EthTrackers :
        /\ Call(t).inclusion = "rejected" =>
              /\ Call(t).result = Threw(InclusionFault)
              /\ state[t] = "Failed" /\ error[t] = InclusionFault
        /\ (prev[t].inclusion = "rejected" /\ Call(t).op \in AwaitOps) =>
              /\ Call(t).issued.wait = 0
              /\ Call(t).pc = "done" /\ Call(t).result = prev[t].result

\* C16: priorityOpId of an ETHOperation is unset exactly while the state is
\* Sent, it is assigned by the step from Sent to Mined, and no other step
\* changes it.
C16_IdLifecycle ==
    [][\A t \in EthTrackers :
          /\ (priorityOpId[t] = NoId) <=> (state[t] = "Sent")
          /\ (priorityOpId'[t] = NoId) <=> (state'[t] = "Sent")
          /\ priorityOpId'[t] # priorityOpId[t] =>
                state[t] = "Sent" /\ state'[t] = "Mined"
          /\ (state[t] = "Sent" /\ state'[t] # "Sent") =>
                state'[t] = "Mined" /\ priorityOpId'[t] \in SerialIds]_vars

\* an ETHOperation with identifier 0 has been taken to Verified and awaited
\* again
C16_Witness ==
    \E t \in EthTrackers :
        /\ state[t] = "Verified" /\ priorityOpId[t] = 0
        /\ Call(t).startState = "Verified" /\ Call(t).pc = "done"

\* exactly one log of the receipt carries a serialId, and it is n
SingleMatch(logs, n) ==
    \E k \in DOMAIN logs :
        /\ logs[k].parsed /\ logs[k].serialId = n
        /\ \A j \in DOMAIN logs \ {k} : ~(logs[j].parsed /\ logs[j].serialId # NoId)

\* C17: when the single matching log of the receipt carries n, the
\* ETHOperation that got the receipt is Mined or later with identifier n,
\* every observer call is issued for n, and an awaitVerifyReceipt call from
\* Sent whose COMMIT and VERIFY dispositions are successes ends with state
\* Verified, both depths polled for n, returning the VERIFY receipt.
C17_HappyPath ==
    \A t \in EthTrackers : \A n \in SerialIds :
        SingleMatch(chainLogs[t], n) =>
            /\ Call(t).inclusion = "resolved" =>
                  state[t] # "Sent" /\ priorityOpId[t] = n
            /\ \A p \in polledIds[t] : p[2] = n
            /\ (/\ Call(t).op = "awaitVerifyReceipt" /\ Call(t).startState = "Sent"
                /\ Call(t).commitSeen = "ok" /\ Call(t).verifySeen = "ok") =>
                  /\ trace[t] = <<"Sent", "Mined", "Committed", "Verified">>
                  /\ polledIds[t] = {<<"COMMIT", n>>, <<"VERIFY", n>>}
                  /\ Call(t).pc = "done"
                  /\ Call(t).result = Returned(Receipt("VERIFY", TRUE, NoReason))
                  /\ Call(t).result.receipt = obtained[t].verify

\* the happy path was run for sequence number 0, carried by one of two logs
C17_Witness ==
    \E t \in EthTrackers :
        /\ SingleMatch(chainLogs[t], 0) /\ Len(chainLogs[t]) = 2
        /\ Call(t).op = "awaitVerifyReceipt" /\ Call(t).startState = "Sent"
        /\ Call(t).verifySeen = "ok" /\ state[t] = "Verified"

\* C18: an awaitVerifyReceipt call from the initial state whose inclusion
\* wait returned and whose observer calls returned dispositions has ended
\* only with the tracker Verified or Failed.
C18_AwaitVerifyEnds ==
    \A t \in Trackers :
        (/\ Call(t).op = "awaitVerifyReceipt" /\ Call(t).startState = "Sent"
         /\ Call(t).pc = "done"
         /\ Call(t).inclusion # "rejected"
         /\ Call(t).commitSeen # "rejected" /\ Call(t).verifySeen # "rejected")
        => state[t] \in {"Verified", "Failed"}

\* C20: a fatal condition discovered by a call leaves the tracker Failed:
\* for an ETHOperation a failed inclusion wait or a receipt without serialId
\* (in Sent), a COMMIT rejection (in Mined), a VERIFY failure disposition (in
\* Committed); for a Transaction a COMMIT rejection (in Sent) and a failed
\* VERIFY poll (in Committed).
C20_FailedFromEveryState ==
    \A t \in Trackers :
        (\/ Call(t).commitSeen = "fail"
         \/ t \in EthTrackers /\ Call(t).inclusion = "rejected"
         \/ t \in EthTrackers /\ Call(t).result = Threw(ParseLogsError)
         \/ t \in EthTrackers /\ Call(t).verifySeen = "fail"
         \/ t \in TxTrackers /\ Call(t).verifySeen = "rejected")
        => state[t] = "Failed"


\* ------------------------------------------------ overlapping await calls
\* A caller that does not await a call before making the next one on the
\* same tracker: a second call starts while the first is suspended.
FreeSlot(t, i) == ~Active(calls[t][i]) /\ \A j \in 1..(i - 1) : Active(calls[t][j])

\* a continuation of an `await` on an async method of the tracker itself is
\* a microtask: it runs before the caller's next call and before any other
\* promise settles
MicrotaskPending ==
    \E t \in Trackers, i \in Slots : calls[t][i].pc \in {"afterInclusion", "afterReceipt"}
Macrotask(t, i) ==
    /\ ~MicrotaskPending
    /\ \/ ETHOperation_waitResolved(t, i)
       \/ ETHOperation_waitRejected(t, i)
       \/ \E r \in PriorityOpReceipts("COMMIT") : ETHOperation_commitResolved(t, i, r)
       \/ \E r \in PriorityOpReceipts("VERIFY") : ETHOperation_verifyResolved(t, i, r)
       \/ ETHOperation_notifyRejected(t, i)
       \/ \E r \in TransactionReceipts("COMMIT") : Transaction_commitResolved(t, i, r)
       \/ \E r \in TransactionReceipts("VERIFY") : Transaction_verifyResolved(t, i, r)
       \/ Transaction_notifyRejected(t, i)
Microtask(t, i) ==
    \/ ETHOperation_awaitReceipt_resume(t, i)
    \/ ETHOperation_awaitVerifyReceipt_resume(t, i)
    \/ Transaction_awaitVerifyReceipt_resume(t, i)

NextOverlap ==
    \E t \in Trackers, i \in Slots :
        \/ \E op \in EthOps :
              ~MicrotaskPending /\ FreeSlot(t, i) /\ ETHOperation_call(t, i, op)
        \/ \E op \in TxOps :
              ~MicrotaskPending /\ FreeSlot(t, i) /\ Transaction_call(t, i, op)
        \/ Macrotask(t, i)
        \/ Microtask(t, i)

SpecOverlap == Init /\ [][NextOverlap]_vars

\* C13: with overlapping await calls on one tracker the state still never
\* moves backward in Sent < Mined < Committed < Verified and never leaves
\* Failed.
C13_OverlapNoRegress ==
    [][\A t \in Trackers :
          /\ state[t] = "Failed" => state'[t] = "Failed"
          /\ state'[t] # "Failed" => Rank(state'[t]) >= Rank(state[t])]_vars


\* C19: after every step each tracker has the state, error and identifier
\* (and its call the position) that it reaches when the same calls with the
\* same promise outcomes are made on it alone: nothing done on another
\* tracker shows in it.
C19_TrackersIndependent ==
    \A t \in Trackers :
        /\ alone[t].state = state[t]
        /\ alone[t].error = error[t]
        /\ alone[t].id = priorityOpId[t]
        /\ alone[t].pc = Call(t).pc

\* a Transaction has failed at its COMMIT poll and an ETHOperation has gone
\* from Sent to Verified in one awaitVerifyReceipt call, both in one run
C19_Witness ==
    /\ \E t \in EthTrackers :
          /\ state[t] = "Verified" /\ Call(t).startState = "Sent"
          /\ Call(t).op = "awaitVerifyReceipt"
    /\ \E t \in TxTrackers : state[t] = "Failed" /\ Call(t).commitSeen = "fail"
    /\ ncalls = 2


\* ------------------------------------------ awaitEthereumTxCommit re-called
\* C21: an awaitEthereumTxCommit call made on an ETHOperation in a state
\* other than Sent has ended in the step that made it, returning undefined,
\* with no inclusion wait and no observer call issued, and with state,
\* error and priorityOpId as they were before the call.
C21_InclusionNoOp ==
    [][\A t \in EthTrackers :
          (/\ Call(t)'.op = "awaitEthereumTxCommit"
           /\ Call(t)'.startState # "Sent") =>
              /\ Call(t)'.pc = "done" /\ Call(t)'.result = ReturnedUndefined
              /\ Call(t)'.issued = NoNet /\ net'[t] = net[t]
              /\ polledIds'[t] = polledIds[t]
              /\ state'[t] = state[t] /\ state'[t] = Call(t)'.startState
              /\ error'[t] = error[t]
              /\ priorityOpId'[t] = priorityOpId[t]]_vars

\* awaitEthereumTxCommit was called on a Failed ETHOperation
C21_Witness ==
    \E t \in EthTrackers :
        /\ Call(t).op = "awaitEthereumTxCommit" /\ Call(t).startState = "Failed"
        /\ Call(t).pc = "done" /\ state[t] = "Failed" /\ error[t] # NoError


\* ------------------------------------------- several logs with a serialId
\* the positions of the logs that parse to an event with a serialId
Matching(logs) == {k \in DOMAIN logs : logs[k].parsed /\ logs[k].serialId # NoId}
\* the serialId of the last of them in receipt order
LastSerialId(logs) ==
    logs[CHOOSE k \in Matching(logs) : \A j \in Matching(logs) : j <= k].serialId

\* C22: when the inclusion receipt holds more than one log with a serialId,
\* the ETHOperation that got it went from Sent to Mined, its identifier is
\* the serialId of the last such log, and every observer call made for it
\* carries that identifier.
C22_LastLogWins ==
    \A t \in EthTrackers :
        Cardinality(Matching(chainLogs[t])) > 1 =>
            /\ state[t] # "Sent"
            /\ Len(trace[t]) >= 2 /\ trace[t][2] = "Mined"
            /\ priorityOpId[t] = LastSerialId(chainLogs[t])
            /\ \A p \in polledIds[t] : p[2] = LastSerialId(chainLogs[t])

\* a receipt with two logs carrying different serialId values, and the
\* ETHOperation polled at both depths and Verified
C22_Witness ==
    \E t \in EthTrackers :
        /\ Cardinality(Matching(chainLogs[t])) = 2
        /\ chainLogs[t][1].serialId # chainLogs[t][Len(chainLogs[t])].serialId
        /\ polledIds[t] = {<<"COMMIT", LastSerialId(chainLogs[t])>>,
                           <<"VERIFY", LastSerialId(chainLogs[t])>>}
        /\ state[t] = "Verified"

====
